---- MODULE Spec2Model ----
(***************************************************************************)
(* Model of MP3Embedder (src/mp3_embedder.py): the scratch directory, the  *)
(* files it writes, and embed_sylt_lyrics as the ladder of fallible steps  *)
(* its nested try/except blocks make: prepare the copy, build the entries, *)
(* open / add_tags / delall+add / save, backup copy, last-resort copy.     *)
(* Strings are sequences of one-character strings, so that strip(),        *)
(* lower(), endswith() and replace() are computed as Python computes them. *)
(* Start times are exact, in microseconds; int(start * 1000) is the        *)
(* truncating division by 1000.                                            *)
(***************************************************************************)
EXTENDS Integers, Sequences, FiniteSets, TLC

\* Bounds of the model.
MaxCalls == 2          \* embed calls per behaviour
MaxWords == 2          \* words per word_timestamps list
MaxLineWords == 9      \* words per list given to a construction on its own
MaxGroupSize == 2      \* max_words_per_line, besides the default and the 8

(***************************************************************************)
(* Python string operations                                                *)
(***************************************************************************)
\* str.lower() on the characters the model uses
LowerChar(c) ==
    CASE c = "M" -> "m"
      [] c = "P" -> "p"
      [] c = "W" -> "w"
      [] OTHER -> c

Lower(s) == [i \in 1..Len(s) |-> LowerChar(s[i])]

\* str.endswith(suffix)
EndsWith(s, suffix) ==
    /\ Len(s) >= Len(suffix)
    /\ SubSeq(s, Len(s) - Len(suffix) + 1, Len(s)) = suffix

\* str.replace(old, new): every non-overlapping occurrence, left to right
RECURSIVE Replace(_, _, _)
Replace(s, old, new) ==
    IF Len(s) < Len(old) THEN s
    ELSE IF SubSeq(s, 1, Len(old)) = old
         THEN new \o Replace(SubSeq(s, Len(old) + 1, Len(s)), old, new)
         ELSE <<Head(s)>> \o Replace(Tail(s), old, new)

IsSpace(c) == c = " "

RECURSIVE LStrip(_)
LStrip(s) == IF s # <<>> /\ IsSpace(Head(s)) THEN LStrip(Tail(s)) ELSE s

RECURSIVE RStrip(_)
RStrip(s) ==
    IF s # <<>> /\ IsSpace(s[Len(s)]) THEN RStrip(SubSeq(s, 1, Len(s) - 1)) ELSE s

\* str.strip()
Strip(s) == RStrip(LStrip(s))

\* int(start_time * 1000) for a start time given in microseconds: int()
\* truncates toward zero
TruncDiv(a, b) == IF a >= 0 THEN a \div b ELSE -((-a) \div b)

UsPerMs == 1000

\* round(x) of a / b for a >= 0, b > 0: to the nearest, ties to even
RoundDiv(a, b) ==
    LET q == a \div b
        r == a % b
    IN IF 2 * r > b \/ (2 * r = b /\ q % 2 = 1) THEN q + 1 ELSE q

(***************************************************************************)
(* Paths                                                                   *)
(***************************************************************************)
Mp3Suffix == <<".", "m", "p", "3">>
BackupSuffix == <<"_", "b", "a", "c", "k", "u", "p", ".", "m", "p", "3">>
CopyPrefix == <<"c", "o", "p", "y", "_">>

\* self.temp_dir = tempfile.mkdtemp(): a fresh directory, no '.' in its name
temp_dir == <<"/", "t">>

\* os.path.join(a, b): an absolute b discards a
PathJoin(a, b) ==
    IF b # <<>> /\ Head(b) = "/" THEN b ELSE a \o <<"/">> \o b

\* os.path.dirname(path) of an absolute path
Dirname(path) ==
    LET last == CHOOSE i \in DOMAIN path :
                    path[i] = "/" /\ \A j \in (i + 1)..Len(path) : path[j] # "/"
    IN IF last = 1 THEN <<"/">> ELSE SubSeq(path, 1, last - 1)

\* The directories there are: the root and self.temp_dir; the embedder makes
\* no other
Directories == { <<"/">>, temp_dir }

\* output_path = os.path.join(self.temp_dir, output_filename)
OutputPath(output_filename) == PathJoin(temp_dir, output_filename)

\* backup_path = output_path.replace('.mp3', '_backup.mp3')
BackupPath(output_path) == Replace(output_path, Mp3Suffix, BackupSuffix)

\* fallback_path = os.path.join(self.temp_dir, f"copy_{output_filename}")
FallbackPath(output_filename) == PathJoin(temp_dir, CopyPrefix \o output_filename)

\* not audio_path.lower().endswith('.mp3') decides the conversion
IsMp3Path(audio_path) == EndsWith(Lower(audio_path), Mp3Suffix)

(***************************************************************************)
(* Inputs                                                                  *)
(***************************************************************************)
\* The source audio files: a tagged MP3 (upper-case extension) that already
\* carries two SYLT and two USLT blocks, and an untagged WAV.
SrcMp3 == <<"/", "m", ".", "M", "P", "3">>
SrcWav == <<"/", "w", ".", "w", "a", "v">>
Sources == {SrcMp3, SrcWav}

\* The output file names the caller passes (app.py: "synced_" + upload name)
OutputNames == { <<"o", ".", "m", "p", "3">>, <<"o", ".", "w", "a", "v">> }

\* The timed words: a plain word, a word that needs trimming and starts
\* 1.6 ms in, and a word that is empty after trimming.
TimedWords ==
    { [word |-> <<"h", "i">>, start |-> 0],
      [word |-> <<" ", "y", "o", " ">>, start |-> 1600],
      [word |-> <<" ">>, start |-> 500000] }

RECURSIVE SeqsUpTo(_, _)
SeqsUpTo(S, n) ==
    IF n = 0 THEN {<<>>}
    ELSE LET shorter == SeqsUpTo(S, n - 1)
         IN shorter \cup {Append(s, x) : s \in shorter, x \in S}

WordTimestampLists == SeqsUpTo(TimedWords, MaxWords)

\* The word lists given to the entry constructions and to the LRC export on
\* their own: up to MaxLineWords words, each a word or a blank, one start
\* every StartStep microseconds (7.0016 s), so that the ninth word starts in
\* the second minute. Odd places hold "a"; even places hold " b", with the
\* leading space of a transcribed token.
StartStep == 7 * 1000000 + 1600
WordKinds == {"word", "blank"}
LineWord(i, kind) ==
    [word |-> IF kind = "blank" THEN <<" ">>
              ELSE IF i % 2 = 1 THEN <<"a">> ELSE <<" ", "b">>,
     start |-> i * StartStep]

\* A malformed element: its 'word' is None, so that None.strip() (line 130)
\* and ' '.join([..., None, ...]) (lines 165, 283) throw
NoneWord(i) == [word |-> <<>>, start |-> i * StartStep, word_is_none |-> TRUE]
IsNone(word_data) == "word_is_none" \in DOMAIN word_data

\* A list of n words of the given kinds, the one at place `none` (if any)
\* malformed
LineWordList(kinds, none) ==
    [i \in DOMAIN kinds |-> IF i = none THEN NoneWord(i) ELSE LineWord(i, kinds[i])]

\* Every list of words and blanks, and every list of words with one
\* malformed element, at any place
LineWordLists ==
    UNION { { LineWordList(kinds, 0) : kinds \in [1..n -> WordKinds] }
            \cup { LineWordList([i \in 1..n |-> "word"], none) : none \in 1..n } :
            n \in 0..MaxLineWords }

\* max_words_per_line: small group sizes, the default, and the 8 of the LRC
\* export
DefaultWordsPerLine == 6
LrcWordsPerLine == 8
GroupSizes == (1..MaxGroupSize) \cup {DefaultWordsPerLine, LrcWordsPerLine}

FullTexts == {"hi yo"}

(***************************************************************************)
(* Files and tag-sets                                                      *)
(***************************************************************************)
\* ID3 keeps its frames in a dict keyed by HashKey (FrameID:desc:lang for
\* SYLT and USLT): a tag-set is a sequence of frames with distinct keys, in
\* the dict's order. A frame's payload is `entries` for SYLT (its text list
\* of (text, timestamp_ms) pairs) and `text` for the other frames.
HashKey(frame) == <<frame.id, frame.desc, frame.lang>>

\* audio_file.tags is None / an ID3 object holding frames
NoTags == [present |-> FALSE, frames |-> <<>>]
Tags(frames) == [present |-> TRUE, frames |-> frames]

\* no file at the path / what a failed copy or save may leave behind / a file
Absent == [state |-> "absent", audio |-> <<>>, tags |-> NoTags]
Garbage == [state |-> "half-written", audio |-> <<>>, tags |-> NoTags]
File(audio, tags) == [state |-> "file", audio |-> audio, tags |-> tags]
IsFile(c) == c.state = "file"

OldSylt(lang) ==
    [id |-> "SYLT", desc |-> "", lang |-> lang, text |-> "",
     entries |-> IF lang = "eng" THEN << <<<<"o", "l", "d">>, 7>> >> ELSE <<>>]
OldUslt(lang) == [id |-> "USLT", desc |-> "", lang |-> lang, text |-> "old", entries |-> <<>>]
Title == [id |-> "TIT2", desc |-> "", lang |-> "", text |-> "title", entries |-> <<>>]

SourceContent(path) ==
    IF path = SrcMp3
    THEN File(<<"raw", path>>,
              Tags(<<Title, OldSylt("fra"), OldSylt("eng"), OldUslt("deu"), OldUslt("eng")>>))
    ELSE File(<<"raw", path>>, NoTags)

\* What ffmpeg -i audio_path -codec:a mp3 output_path writes: the re-encoded
\* audio, in the container the output extension selects: for .mp3 an MP3
\* with the encoder's own ID3 tag, otherwise a container without ID3.
EncoderTag == [id |-> "TSSE", desc |-> "", lang |-> "", text |-> "lavf", entries |-> <<>>]
ConvertedContent(src, output_path) ==
    File(<<"mp3 of", src.audio[2]>>,
         IF EndsWith(output_path, Mp3Suffix) THEN Tags(<<EncoderTag>>) ELSE NoTags)

OutputPaths ==
    UNION { {OutputPath(n), BackupPath(OutputPath(n)), FallbackPath(n)} : n \in OutputNames }

Paths == Sources \cup OutputPaths

\* The output file names a caller of embed_sylt_lyrics may pass: those of
\* the application, an absolute one, and the path of a source itself
AbsoluteName == <<"/", "x", ".", "m", "p", "3">>
CallerNames == OutputNames \cup {AbsoluteName, SrcWav}
CallerPaths ==
    Sources \cup
    UNION { {OutputPath(n), BackupPath(OutputPath(n)), FallbackPath(n)} : n \in CallerNames }

\* tags.getall(id)
GetAll(frames, id) == SelectSeq(frames, LAMBDA f : f.id = id)

\* Mutation of DelAll: removes only the frames stored under the 'eng' key
DelAllOnlyEng(frames, id) == SelectSeq(frames, LAMBDA f : f.id # id \/ f.lang # "eng")

\* tags.delall(id)
DelAll(frames, id) == SelectSeq(frames, LAMBDA f : f.id # id)

\* tags.add(frame): self[frame.HashKey] = frame
Add(frames, frame) ==
    IF \E i \in 1..Len(frames) : HashKey(frames[i]) = HashKey(frame)
    THEN [i \in 1..Len(frames) |->
            IF HashKey(frames[i]) = HashKey(frame) THEN frame ELSE frames[i]]
    ELSE Append(frames, frame)

(***************************************************************************)
(* Entry construction and the read-back operations                         *)
(***************************************************************************)
\* timestamp_ms = int(start_time * 1000)
TimestampMs(start_time) == TruncDiv(start_time, UsPerMs)

\* Mutation of CreateSyltData: without the `if word:` test
RECURSIVE CreateSyltDataKeepsBlank(_)
CreateSyltDataKeepsBlank(word_timestamps) ==
    IF word_timestamps = <<>> THEN <<>>
    ELSE << <<Strip(Head(word_timestamps).word), TimestampMs(Head(word_timestamps).start)>> >>
         \o CreateSyltDataKeepsBlank(Tail(word_timestamps))

\* Lines 140-142, 185-187, 311: the loop throws on a malformed element
AnyRaises(word_timestamps) ==
    \E i \in DOMAIN word_timestamps : IsNone(word_timestamps[i])

\* Mutation of CreateSyltData: the except branch returns the entries built
\* so far
RECURSIVE CreateSyltDataPartial(_)
CreateSyltDataPartial(word_timestamps) ==
    IF word_timestamps = <<>> \/ IsNone(Head(word_timestamps)) THEN <<>>
    ELSE LET word == Strip(Head(word_timestamps).word)
             rest == CreateSyltDataPartial(Tail(word_timestamps))
         IN IF word # <<>>
            THEN << <<word, TimestampMs(Head(word_timestamps).start)>> >> \o rest
            ELSE rest

\* Mutation of CreateSyltData: each entry is put in front of the others
RECURSIVE CreateSyltDataPrepends(_)
CreateSyltDataPrepends(word_timestamps) ==
    IF word_timestamps = <<>> THEN <<>>
    ELSE LET word == Strip(Head(word_timestamps).word)
             rest == CreateSyltDataPrepends(Tail(word_timestamps))
         IN IF AnyRaises(word_timestamps) THEN <<>>
            ELSE IF word # <<>>
            THEN rest \o << <<word, TimestampMs(Head(word_timestamps).start)>> >>
            ELSE rest

\* _create_sylt_data: one (word.strip(), timestamp_ms) per word that is not
\* empty after strip(), in input order; [] when the loop throws
RECURSIVE CreateSyltData(_)
CreateSyltData(word_timestamps) ==
    IF word_timestamps = <<>> \/ AnyRaises(word_timestamps) THEN <<>>
    ELSE LET word_data == Head(word_timestamps)
             word == Strip(word_data.word)
             rest == CreateSyltData(Tail(word_timestamps))
         IN IF word # <<>>
            THEN << <<word, TimestampMs(word_data.start)>> >> \o rest
            ELSE rest

\* ' '.join([w.get('word', '') for w in current_line])
RECURSIVE JoinWords(_)
JoinWords(current_line) ==
    IF current_line = <<>> THEN <<>>
    ELSE IF Len(current_line) = 1 THEN Head(current_line).word
    ELSE Head(current_line).word \o <<" ">> \o JoinWords(Tail(current_line))

\* Mutation of LineGroups: the words left after the last full group are
\* dropped
RECURSIVE LineGroupsNoRest(_, _)
LineGroupsNoRest(word_timestamps, max_words_per_line) ==
    IF Len(word_timestamps) < max_words_per_line THEN <<>>
    ELSE << SubSeq(word_timestamps, 1, max_words_per_line) >>
         \o LineGroupsNoRest(SubSeq(word_timestamps, max_words_per_line + 1,
                                    Len(word_timestamps)), max_words_per_line)

\* Mutation of LineGroups: a group is closed one word late
RECURSIVE LineGroupsOneMore(_, _)
LineGroupsOneMore(word_timestamps, max_words_per_line) ==
    IF word_timestamps = <<>> THEN <<>>
    ELSE IF Len(word_timestamps) <= max_words_per_line + 1 THEN << word_timestamps >>
    ELSE << SubSeq(word_timestamps, 1, max_words_per_line + 1) >>
         \o LineGroupsOneMore(SubSeq(word_timestamps, max_words_per_line + 2,
                                     Len(word_timestamps)), max_words_per_line)

\* The loop of lines 159-172 and 278-292: current_line is closed each time
\* it holds max_words_per_line words (at least 1); lines 175, 295: the words
\* left over make the last group
RECURSIVE LineGroups(_, _)
LineGroups(word_timestamps, max_words_per_line) ==
    IF word_timestamps = <<>> THEN <<>>
    ELSE IF Len(word_timestamps) <= max_words_per_line THEN << word_timestamps >>
    ELSE << SubSeq(word_timestamps, 1, max_words_per_line) >>
         \o LineGroups(SubSeq(word_timestamps, max_words_per_line + 1,
                              Len(word_timestamps)), max_words_per_line)

\* Lines 165-170: (line_text, timestamp_ms) of each group whose joined text
\* is not empty after strip()
RECURSIVE LineEntries(_)
LineEntries(groups) ==
    IF groups = <<>> THEN <<>>
    ELSE LET current_line == Head(groups)
             line_text == Strip(JoinWords(current_line))
             start_time == current_line[1].start
             rest == LineEntries(Tail(groups))
         IN IF line_text # <<>>
            THEN << <<line_text, TimestampMs(start_time)>> >> \o rest
            ELSE rest

\* _create_line_based_sylt_data; [] when the loop throws
CreateLineBasedSyltData(word_timestamps, max_words_per_line) ==
    IF AnyRaises(word_timestamps) THEN <<>>
    ELSE LineEntries(LineGroups(word_timestamps, max_words_per_line))

\* Lines 287-289: [mm:ss.xx], minutes = int(start // 60) and the seconds
\* left, formatted to two decimals (to the nearest hundredth)
UsPerMinute == 60 * 1000000
UsPerCentisecond == 10000
LrcTimestamp(start_time) ==
    [minutes |-> start_time \div UsPerMinute,
     centiseconds |-> RoundDiv(start_time % UsPerMinute, UsPerCentisecond)]

\* Lines 283-291: timestamp_str + line_text of each group; the text is not
\* stripped and no line is skipped
RECURSIVE LrcLines(_)
LrcLines(groups) ==
    IF groups = <<>> THEN <<>>
    ELSE << [timestamp |-> LrcTimestamp(Head(groups)[1].start),
             line_text |-> JoinWords(Head(groups))] >>
         \o LrcLines(Tail(groups))

\* SYLT(encoding=UTF8, lang='eng', format=2, type=1, text=sylt_data)
SyltFrame(sylt_data) ==
    [id |-> "SYLT", desc |-> "", lang |-> "eng", text |-> "", entries |-> sylt_data]

\* USLT(encoding=UTF8, lang='eng', desc='', text=text)
UsltFrame(text) ==
    [id |-> "USLT", desc |-> "", lang |-> "eng", text |-> text, entries |-> <<>>]

\* Mutation of EditTags: without the two delall calls
EditTagsNoDelall(frames, sylt_data, text) ==
    Add(Add(frames, SyltFrame(sylt_data)), UsltFrame(text))

\* Lines 72-90: delall('SYLT'); add(sylt_frame); delall('USLT'); add(uslt_frame)
EditTags(frames, sylt_data, text) ==
    Add(DelAll(Add(DelAll(frames, "SYLT"), SyltFrame(sylt_data)), "USLT"), UsltFrame(text))

\* MP3(path) can read the file: it exists and is whole
Readable(files, path) == IF path \in DOMAIN files THEN IsFile(files[path]) ELSE FALSE

\* `if audio_file.tags:` an ID3 object with no frame is false, like None
Truthy(tags) == tags.present /\ tags.frames # <<>>

\* Mutation of VerifySyltEmbedding: counts the SYLT frames, not the entries
\* of the first one
VerifyCountsFrames(files, mp3_path) ==
    IF ~Readable(files, mp3_path)
    THEN [has_sylt |-> FALSE, has_uslt |-> FALSE, sylt_entries |-> 0, error |-> "error"]
    ELSE LET tags == files[mp3_path].tags
             sylt_frames == IF Truthy(tags) THEN GetAll(tags.frames, "SYLT") ELSE <<>>
             uslt_frames == IF Truthy(tags) THEN GetAll(tags.frames, "USLT") ELSE <<>>
         IN [has_sylt |-> sylt_frames # <<>>,
             has_uslt |-> uslt_frames # <<>>,
             sylt_entries |-> Len(sylt_frames),
             error |-> "None"]

\* Mutation of VerifySyltEmbedding: the except branch leaves the error detail
\* out
VerifyDropsError(files, mp3_path) ==
    IF ~Readable(files, mp3_path)
    THEN [has_sylt |-> FALSE, has_uslt |-> FALSE, sylt_entries |-> 0, error |-> "None"]
    ELSE LET tags == files[mp3_path].tags
             sylt_frames == IF Truthy(tags) THEN GetAll(tags.frames, "SYLT") ELSE <<>>
             uslt_frames == IF Truthy(tags) THEN GetAll(tags.frames, "USLT") ELSE <<>>
         IN [has_sylt |-> sylt_frames # <<>>,
             has_uslt |-> uslt_frames # <<>>,
             sylt_entries |-> IF sylt_frames # <<>> THEN Len(sylt_frames[1].entries) ELSE 0,
             error |-> "None"]

\* verify_sylt_embedding
VerifySyltEmbedding(files, mp3_path) ==
    IF ~Readable(files, mp3_path)
    THEN [has_sylt |-> FALSE, has_uslt |-> FALSE, sylt_entries |-> 0, error |-> "error"]
    ELSE LET tags == files[mp3_path].tags
             sylt_frames == IF Truthy(tags) THEN GetAll(tags.frames, "SYLT") ELSE <<>>
             uslt_frames == IF Truthy(tags) THEN GetAll(tags.frames, "USLT") ELSE <<>>
         IN [has_sylt |-> sylt_frames # <<>>,
             has_uslt |-> uslt_frames # <<>>,
             sylt_entries |-> IF sylt_frames # <<>> THEN Len(sylt_frames[1].entries) ELSE 0,
             error |-> "None"]

\* Mutation of SecondsOfMs: the stored milliseconds, not divided
SecondsOfMsUndivided(timestamp_ms) == timestamp_ms

\* timestamp_ms / 1000.0, in microseconds
SecondsOfMs(timestamp_ms) == timestamp_ms * UsPerMs

RECURSIVE FrameLyrics(_)
FrameLyrics(entries) ==
    IF entries = <<>> THEN <<>>
    ELSE << [text |-> Head(entries)[1], timestamp |-> SecondsOfMs(Head(entries)[2])] >>
         \o FrameLyrics(Tail(entries))

RECURSIVE AllLyrics(_)
AllLyrics(frames) ==
    IF frames = <<>> THEN <<>>
    ELSE FrameLyrics(Head(frames).entries) \o AllLyrics(Tail(frames))

\* extract_sylt_lyrics
ExtractSyltLyrics(files, mp3_path) ==
    IF ~Readable(files, mp3_path) THEN <<>>
    ELSE LET tags == files[mp3_path].tags
         IN IF Truthy(tags) THEN AllLyrics(GetAll(tags.frames, "SYLT")) ELSE <<>>

(***************************************************************************)
(* State                                                                   *)
(***************************************************************************)
VARIABLES
    fs,       \* the file system: path -> File, Absent or Garbage
    call,     \* per caller: the frame of its embed_sylt_lyrics call
    ncalls,   \* embed calls started
    report,   \* the last verify_sylt_embedding and the path it read
    lyrics,   \* the last extract_sylt_lyrics and the path it read
    job,      \* a word list and what an entry construction or the LRC export made of it
    embedder  \* the MP3Embedder instance: its life and its temp_dir

vars == <<fs, call, ncalls, report, lyrics, job, embedder>>

Procs == {1, 2}
\* The embedder is single-threaded: Spec runs one caller
SerialProcs == {1}

NoReport ==
    [called |-> FALSE, path |-> <<>>,
     result |-> [has_sylt |-> FALSE, has_uslt |-> FALSE, sylt_entries |-> 0, error |-> "None"]]
NoLyrics == [called |-> FALSE, path |-> <<>>, result |-> <<>>, logged |-> FALSE]
NoResult == [kind |-> "none", path |-> <<>>, rung |-> "none"]
Closed == [open |-> FALSE, tags |-> NoTags]

\* No construction or export has run on the word list yet; the caption file
\* is not there
NoCaption == [state |-> "absent", lines |-> <<>>]
NoJob ==
    [op |-> "none", word_timestamps |-> <<>>, max_words_per_line |-> 0,
     entries |-> <<>>, file |-> NoCaption, result |-> "none", logged |-> FALSE]

\* Lines 13-15: a constructed instance owns the directory mkdtemp() made
Constructed ==
    [life |-> "live", temp_dir |-> "exists", rmtree_threw |-> FALSE]

IdleFrame ==
    [pc |-> "idle", audio_path |-> <<>>, word_timestamps |-> <<>>, text |-> "",
     output_filename |-> <<>>, output_path |-> <<>>, sylt_data |-> <<>>,
     audio_file |-> Closed, trace |-> <<>>, log |-> <<>>, result |-> NoResult,
     prev |-> NoResult]

Init ==
    /\ fs = [p \in Paths |-> IF p \in Sources THEN SourceContent(p) ELSE Absent]
    /\ call = [p \in Procs |-> IdleFrame]
    /\ ncalls = 0
    /\ report = NoReport
    /\ lyrics = NoLyrics
    /\ job = NoJob
    /\ embedder = Constructed

\* shutil.copy2(src, dst): the outcome of a copy that succeeds, and those of
\* one that throws (dst left as it was, or half-written)
CopyDone(files, src, dst) == [files EXCEPT ![dst] = files[src]]
CopyCanSucceed(files, src, dst) ==
    IsFile(files[src]) /\ src # dst /\ Dirname(dst) \in Directories
CopyFailures(files, src, dst) ==
    IF IsFile(files[src]) /\ src # dst /\ Dirname(dst) \in Directories
    THEN {files, [files EXCEPT ![dst] = Garbage]}
    ELSE {files}

\* The frame's `trace` records the steps the call has run and whether each
\* returned or threw.
Ran(step) == [step |-> step, ok |-> TRUE]
Threw(step) == [step |-> step, ok |-> FALSE]

\* a step returned: control moves on to `next`
Goes(p, step, next) ==
    [call EXCEPT ![p].pc = next, ![p].trace = Append(@, Ran(step))]

\* Line 99: the handler of the tagging steps prints; the bare except of line
\* 44 and the handler of line 107 print nothing
Printed(next) == IF next = "backup" THEN << "MP3 processing failed" >> ELSE <<>>

\* a step threw: control moves to the handler `next`
Throws(p, step, next) ==
    [call EXCEPT ![p].pc = next, ![p].audio_file = Closed,
                 ![p].trace = Append(@, Threw(step)),
                 ![p].log = @ \o Printed(next)]

\* return path, after `step` returned: the caller holds the result
Returned(p, step, path, rung) ==
    [call EXCEPT ![p].pc = "idle",
                 ![p].audio_file = Closed,
                 ![p].trace = Append(@, Ran(step)),
                 ![p].result = [kind |-> "path", path |-> path, rung |-> rung]]

\* raise Exception(...), after `step` threw
Raised(p, step) ==
    [call EXCEPT ![p].pc = "idle",
                 ![p].audio_file = Closed,
                 ![p].trace = Append(@, Threw(step)),
                 ![p].result = [kind |-> "raise", path |-> <<>>, rung |-> "raised"]]

(***************************************************************************)
(* embed_sylt_lyrics, one action per fallible step and outcome             *)
(***************************************************************************)
\* Lines 17-36: a caller enters embed_sylt_lyrics. Its first call takes any
\* arguments; a later call repeats the arguments of its last one (the
\* re-embedding of the same file), whose result the frame keeps in `prev`.
Call(p, audio_path, word_timestamps, text, output_filename) ==
    /\ call[p].pc = "idle"
    /\ embedder.life = "live"
    /\ ncalls < MaxCalls
    /\ \/ call[p].result = NoResult
       \/ /\ audio_path = call[p].audio_path
          /\ word_timestamps = call[p].word_timestamps
          /\ text = call[p].text
          /\ output_filename = call[p].output_filename
    /\ call' = [call EXCEPT ![p] =
          [IdleFrame EXCEPT
             !.pc = IF IsMp3Path(audio_path) THEN "copy" ELSE "convert",
             !.audio_path = audio_path,
             !.word_timestamps = word_timestamps,
             !.text = text,
             !.output_filename = output_filename,
             !.output_path = OutputPath(output_filename),
             !.prev = call[p].result]]
    /\ ncalls' = ncalls + 1
    /\ report' = NoReport
    /\ lyrics' = NoLyrics
    /\ UNCHANGED <<fs, job, embedder>>

\* Mutation of ConvertOk: the conversion writes over its own input
ConvertOkInPlace(p) ==
    /\ call[p].pc = "convert"
    /\ IsFile(fs[call[p].audio_path])
    /\ fs' = [fs EXCEPT ![call[p].output_path] =
                  ConvertedContent(fs[call[p].audio_path], call[p].output_path)]
    /\ call' = Goes(p, "convert", "build")
    /\ UNCHANGED <<ncalls, report, lyrics, job, embedder>>

\* Lines 42-43: ffmpeg writes the converted file. ffmpeg exits with an error
\* when its output is its input (it cannot edit a file in place), so the
\* conversion can only succeed onto another path.
ConvertOk(p) ==
    /\ call[p].pc = "convert"
    /\ IsFile(fs[call[p].audio_path])
    /\ call[p].audio_path # call[p].output_path
    /\ fs' = [fs EXCEPT ![call[p].output_path] =
                  ConvertedContent(fs[call[p].audio_path], call[p].output_path)]
    /\ call' = Goes(p, "convert", "build")
    /\ UNCHANGED <<ncalls, report, lyrics, job, embedder>>

\* Lines 44-46: ffmpeg is missing or fails, the output left as it was or
\* half-written (never when the output is the input: ffmpeg then exits before
\* it opens the output); the bare except goes on to copy
ConvertFail(p) ==
    /\ call[p].pc = "convert"
    /\ fs' \in {fs} \cup
               (IF call[p].audio_path # call[p].output_path
                THEN {[fs EXCEPT ![call[p].output_path] = Garbage]} ELSE {})
    /\ call' = Throws(p, "convert", "copy")
    /\ UNCHANGED <<ncalls, report, lyrics, job, embedder>>

\* Lines 46, 49: shutil.copy2(audio_path, output_path)
PrepareCopyOk(p) ==
    /\ call[p].pc = "copy"
    /\ CopyCanSucceed(fs, call[p].audio_path, call[p].output_path)
    /\ fs' = CopyDone(fs, call[p].audio_path, call[p].output_path)
    /\ call' = Goes(p, "prepare", "build")
    /\ UNCHANGED <<ncalls, report, lyrics, job, embedder>>

\* Lines 46, 49 throw: caught at line 107
PrepareCopyFail(p) ==
    /\ call[p].pc = "copy"
    /\ fs' \in CopyFailures(fs, call[p].audio_path, call[p].output_path)
    /\ call' = Throws(p, "prepare", "last_resort")
    /\ UNCHANGED <<ncalls, report, lyrics, job, embedder>>

\* Mutation of CreateEntries: goes on to tag even with no entry
CreateEntriesTagsAnyway(p) ==
    /\ call[p].pc = "build"
    /\ call' = [Goes(p, "build", "open") EXCEPT
                  ![p].sylt_data = CreateSyltData(call[p].word_timestamps)]
    /\ UNCHANGED <<fs, ncalls, report, lyrics, job, embedder>>

\* Lines 52-54 and 103-105: build the entries; with none, return the copy
CreateEntries(p) ==
    /\ call[p].pc = "build"
    /\ LET sylt_data == CreateSyltData(call[p].word_timestamps)
       IN call' = IF sylt_data # <<>>
                  THEN [Goes(p, "build", "open") EXCEPT ![p].sylt_data = sylt_data]
                  ELSE Returned(p, "build", call[p].output_path, "prepared")
    /\ UNCHANGED <<fs, ncalls, report, lyrics, job, embedder>>

\* Lines 57-60: audio_file = MP3(output_path, ID3=ID3)
OpenOk(p) ==
    /\ call[p].pc = "open"
    /\ Readable(fs, call[p].output_path)
    /\ LET tags == fs[call[p].output_path].tags
       IN call' = [Goes(p, "open", IF tags.present THEN "edit" ELSE "add_tags")
                     EXCEPT ![p].audio_file = [open |-> TRUE, tags |-> tags]]
    /\ UNCHANGED <<fs, ncalls, report, lyrics, job, embedder>>

\* Mutation of OpenFail: the failure goes past the handler of line 97, to
\* the one of line 107
OpenFailSkipsBackup(p) ==
    /\ call[p].pc = "open"
    /\ call' = Throws(p, "open", "last_resort")
    /\ UNCHANGED <<fs, ncalls, report, lyrics, job, embedder>>

\* Line 57 throws: caught at line 97
OpenFail(p) ==
    /\ call[p].pc = "open"
    /\ call' = Throws(p, "open", "backup")
    /\ UNCHANGED <<fs, ncalls, report, lyrics, job, embedder>>

\* Line 61: audio_file.add_tags()
AddTagsOk(p) ==
    /\ call[p].pc = "add_tags"
    /\ call' = [Goes(p, "add_tags", "edit") EXCEPT ![p].audio_file.tags = Tags(<<>>)]
    /\ UNCHANGED <<fs, ncalls, report, lyrics, job, embedder>>

AddTagsFail(p) ==
    /\ call[p].pc = "add_tags"
    /\ call' = Throws(p, "add_tags", "backup")
    /\ UNCHANGED <<fs, ncalls, report, lyrics, job, embedder>>

\* Lines 64-90: build the frames, delall and add, in memory
EditOk(p) ==
    /\ call[p].pc = "edit"
    /\ call' = [Goes(p, "edit", "save") EXCEPT
                  ![p].audio_file.tags =
                      Tags(EditTags(@.frames, call[p].sylt_data, call[p].text))]
    /\ UNCHANGED <<fs, ncalls, report, lyrics, job, embedder>>

EditFail(p) ==
    /\ call[p].pc = "edit"
    /\ call' = Throws(p, "edit", "backup")
    /\ UNCHANGED <<fs, ncalls, report, lyrics, job, embedder>>

\* Lines 93-95: audio_file.save(v2_version=3); return output_path
SaveOk(p) ==
    /\ call[p].pc = "save"
    /\ Readable(fs, call[p].output_path)
    /\ fs' = [fs EXCEPT ![call[p].output_path].tags = call[p].audio_file.tags]
    /\ call' = Returned(p, "save", call[p].output_path, "tagged")
    /\ UNCHANGED <<ncalls, report, lyrics, job, embedder>>

\* Line 93 throws, the file left as it was or half-written
SaveFail(p) ==
    /\ call[p].pc = "save"
    /\ fs' \in {fs} \cup
               (IF fs[call[p].output_path] # Absent
                THEN {[fs EXCEPT ![call[p].output_path] = Garbage]} ELSE {})
    /\ call' = Throws(p, "save", "backup")
    /\ UNCHANGED <<ncalls, report, lyrics, job, embedder>>

\* Mutation of BackupCopyOk: copies the working copy, not the source
BackupCopyOkFromWorkingCopy(p) ==
    /\ call[p].pc = "backup"
    /\ LET backup_path == BackupPath(call[p].output_path)
       IN /\ CopyCanSucceed(fs, call[p].output_path, backup_path)
          /\ fs' = CopyDone(fs, call[p].output_path, backup_path)
          /\ call' = Returned(p, "backup", backup_path, "backup")
    /\ UNCHANGED <<ncalls, report, lyrics, job, embedder>>

\* Lines 97-102: copy the source to backup_path and return it
BackupCopyOk(p) ==
    /\ call[p].pc = "backup"
    /\ LET backup_path == BackupPath(call[p].output_path)
       IN /\ CopyCanSucceed(fs, call[p].audio_path, backup_path)
          /\ fs' = CopyDone(fs, call[p].audio_path, backup_path)
          /\ call' = Returned(p, "backup", backup_path, "backup")
    /\ UNCHANGED <<ncalls, report, lyrics, job, embedder>>

\* Mutation of BackupCopyFail: the failure of the backup copy is raised
BackupCopyFailRaises(p) ==
    /\ call[p].pc = "backup"
    /\ fs' \in CopyFailures(fs, call[p].audio_path, BackupPath(call[p].output_path))
    /\ call' = Raised(p, "backup")
    /\ UNCHANGED <<ncalls, report, lyrics, job, embedder>>

\* Mutation of BackupCopyFail: the failure of the backup copy is swallowed
\* and backup_path returned
BackupCopyFailReturns(p) ==
    /\ call[p].pc = "backup"
    /\ fs' \in CopyFailures(fs, call[p].audio_path, BackupPath(call[p].output_path))
    /\ call' = [call EXCEPT
                  ![p].pc = "idle",
                  ![p].audio_file = Closed,
                  ![p].trace = Append(@, Threw("backup")),
                  ![p].result = [kind |-> "path",
                                 path |-> BackupPath(call[p].output_path),
                                 rung |-> "backup"]]
    /\ UNCHANGED <<ncalls, report, lyrics, job, embedder>>

\* Mutation of BackupCopyFail: the backup copy is tried again
BackupCopyFailRetries(p) ==
    /\ call[p].pc = "backup"
    /\ fs' \in CopyFailures(fs, call[p].audio_path, BackupPath(call[p].output_path))
    /\ call' = Throws(p, "backup", "backup")
    /\ UNCHANGED <<ncalls, report, lyrics, job, embedder>>

\* Line 101 throws inside the handler: caught at line 107
BackupCopyFail(p) ==
    /\ call[p].pc = "backup"
    /\ fs' \in CopyFailures(fs, call[p].audio_path, BackupPath(call[p].output_path))
    /\ call' = Throws(p, "backup", "last_resort")
    /\ UNCHANGED <<ncalls, report, lyrics, job, embedder>>

\* Lines 107-112: the last-resort copy
LastResortOk(p) ==
    /\ call[p].pc = "last_resort"
    /\ LET fallback_path == FallbackPath(call[p].output_filename)
       IN /\ CopyCanSucceed(fs, call[p].audio_path, fallback_path)
          /\ fs' = CopyDone(fs, call[p].audio_path, fallback_path)
          /\ call' = Returned(p, "last_resort", fallback_path, "last_resort")
    /\ UNCHANGED <<ncalls, report, lyrics, job, embedder>>

\* Lines 113-114: the last-resort copy throws too: raise to the caller
LastResortFail(p) ==
    /\ call[p].pc = "last_resort"
    /\ fs' \in CopyFailures(fs, call[p].audio_path, FallbackPath(call[p].output_filename))
    /\ call' = Raised(p, "last_resort")
    /\ UNCHANGED <<ncalls, report, lyrics, job, embedder>>

\* No embed call is running
Quiet == \A p \in Procs : call[p].pc = "idle"

\* The paths a caller reads back: the path its last call returned or, when
\* the call raised, the primary output path it had asked for
ReadBackPaths ==
    { IF call[p].result.kind = "path" THEN call[p].result.path ELSE call[p].output_path :
        p \in Procs } \ {<<>>}

\* Mutation of Verify: the file is opened for update and saved back without
\* its tag-set; a file that cannot be read is left half-written
VerifyRewrites(mp3_path) ==
    /\ Quiet
    /\ embedder.life = "live"
    /\ ~report.called
    /\ report' = [called |-> TRUE, path |-> mp3_path,
                  result |-> VerifySyltEmbedding(fs, mp3_path)]
    /\ fs' = [fs EXCEPT ![mp3_path] =
                 IF Readable(fs, mp3_path) THEN File(@.audio, NoTags) ELSE Garbage]
    /\ UNCHANGED <<call, ncalls, lyrics, job, embedder>>

\* verify_sylt_embedding(mp3_path), between embed calls
Verify(mp3_path) ==
    /\ Quiet
    /\ embedder.life = "live"
    /\ ~report.called
    /\ report' = [called |-> TRUE, path |-> mp3_path,
                  result |-> VerifySyltEmbedding(fs, mp3_path)]
    /\ UNCHANGED <<fs, call, ncalls, lyrics, job, embedder>>

\* extract_sylt_lyrics(mp3_path), between embed calls
Extract(mp3_path) ==
    /\ Quiet
    /\ embedder.life = "live"
    /\ ~lyrics.called
    /\ lyrics' = [called |-> TRUE, path |-> mp3_path,
                  result |-> ExtractSyltLyrics(fs, mp3_path),
                  logged |-> ~Readable(fs, mp3_path)]
    /\ UNCHANGED <<fs, call, ncalls, report, job, embedder>>

\* The steps of a call that is under way
Run(p) ==
    \/ ConvertOk(p)
    \/ ConvertFail(p)
    \/ PrepareCopyOk(p)
    \/ PrepareCopyFail(p)
    \/ CreateEntries(p)
    \/ OpenOk(p)
    \/ OpenFail(p)
    \/ AddTagsOk(p)
    \/ AddTagsFail(p)
    \/ EditOk(p)
    \/ EditFail(p)
    \/ SaveOk(p)
    \/ SaveFail(p)
    \/ BackupCopyOk(p)
    \/ BackupCopyFail(p)
    \/ LastResortOk(p)
    \/ LastResortFail(p)

Step(p) ==
    \/ \E audio_path \in Sources, word_timestamps \in WordTimestampLists,
          text \in FullTexts, output_filename \in OutputNames :
          Call(p, audio_path, word_timestamps, text, output_filename)
    \/ Run(p)

Next ==
    \/ \E p \in SerialProcs : Step(p)
    \/ \E mp3_path \in ReadBackPaths : Verify(mp3_path)
    \/ \E mp3_path \in ReadBackPaths : Extract(mp3_path)

Spec == Init /\ [][Next]_vars

(***************************************************************************)
(* The entry constructions and the LRC export, each applied on its own to  *)
(* a word list                                                             *)
(***************************************************************************)
JobInit ==
    /\ fs = [p \in Paths |-> IF p \in Sources THEN SourceContent(p) ELSE Absent]
    /\ call = [p \in Procs |-> IdleFrame]
    /\ ncalls = 0
    /\ report = NoReport
    /\ lyrics = NoLyrics
    /\ \E word_timestamps \in LineWordLists :
          job = [NoJob EXCEPT !.word_timestamps = word_timestamps]
    /\ embedder = Constructed

\* _create_sylt_data(word_timestamps): returns the entries; the except
\* branch (lines 140-142) prints and returns []
BuildPerWord ==
    /\ job.op = "none"
    /\ job' = [job EXCEPT !.op = "per_word",
                          !.entries = CreateSyltData(job.word_timestamps),
                          !.result = "returned",
                          !.logged = AnyRaises(job.word_timestamps)]
    /\ UNCHANGED <<fs, call, ncalls, report, lyrics, embedder>>

\* _create_line_based_sylt_data(word_timestamps, max_words_per_line): returns
\* the entries; the except branch (lines 185-187) prints and returns []
BuildPerLine(max_words_per_line) ==
    /\ job.op = "none"
    /\ job' = [job EXCEPT !.op = "per_line",
                          !.max_words_per_line = max_words_per_line,
                          !.entries = CreateLineBasedSyltData(job.word_timestamps,
                                                             max_words_per_line),
                          !.result = "returned",
                          !.logged = AnyRaises(job.word_timestamps)]
    /\ UNCHANGED <<fs, call, ncalls, report, lyrics, embedder>>

\* The caption file after a write that threw: open() threw and nothing is
\* there, or f.write() threw and the file is cut short
CaptionFailures == { NoCaption, [state |-> "partial", lines |-> <<>>] }

\* create_lrc_file, lines 274-309: the lines are built and written, and the
\* path is returned
CreateLrcFileOk ==
    /\ job.op = "none"
    /\ ~AnyRaises(job.word_timestamps)
    /\ job' = [job EXCEPT
                  !.op = "lrc",
                  !.max_words_per_line = LrcWordsPerLine,
                  !.file = [state |-> "written",
                            lines |-> LrcLines(LineGroups(job.word_timestamps,
                                                          LrcWordsPerLine))],
                  !.result = "returned"]
    /\ UNCHANGED <<fs, call, ncalls, report, lyrics, embedder>>

\* Lines 283, 296, 311-312: ' '.join throws on a malformed word, before the
\* file is opened; the except branch raises
CreateLrcFileJoinThrows ==
    /\ job.op = "none"
    /\ AnyRaises(job.word_timestamps)
    /\ job' = [job EXCEPT !.op = "lrc",
                          !.max_words_per_line = LrcWordsPerLine,
                          !.result = "raised"]
    /\ UNCHANGED <<fs, call, ncalls, report, lyrics, embedder>>

\* Mutation of CreateLrcFileWriteThrows: the except branch returns the path
CreateLrcFileWriteSwallowed ==
    /\ job.op = "none"
    /\ ~AnyRaises(job.word_timestamps)
    /\ \E file \in CaptionFailures :
          job' = [job EXCEPT !.op = "lrc_write_threw",
                            !.max_words_per_line = LrcWordsPerLine,
                            !.file = file,
                            !.result = "returned"]
    /\ UNCHANGED <<fs, call, ncalls, report, lyrics, embedder>>

\* Lines 306-307, 311-312: open() or f.write() throws; the except branch
\* raises
CreateLrcFileWriteThrows ==
    /\ job.op = "none"
    /\ ~AnyRaises(job.word_timestamps)
    /\ \E file \in CaptionFailures :
          job' = [job EXCEPT !.op = "lrc_write_threw",
                            !.max_words_per_line = LrcWordsPerLine,
                            !.file = file,
                            !.result = "raised"]
    /\ UNCHANGED <<fs, call, ncalls, report, lyrics, embedder>>

JobNext ==
    \/ BuildPerWord
    \/ \E max_words_per_line \in GroupSizes : BuildPerLine(max_words_per_line)
    \/ CreateLrcFileOk
    \/ CreateLrcFileJoinThrows
    \/ CreateLrcFileWriteThrows

JobSpec == JobInit /\ [][JobNext]_vars

(***************************************************************************)
(* Vocabulary of the properties                                            *)
(***************************************************************************)
\* p's last embed call has ended (returned a path, or raised)
Done(p) == call[p].pc = "idle" /\ call[p].result # NoResult

StepsOf(p) == {call[p].trace[i] : i \in DOMAIN call[p].trace}
DidRun(p, step) == Ran(step) \in StepsOf(p)
DidThrow(p, step) == Threw(step) \in StepsOf(p)

\* the tag-set operations: MP3(), add_tags(), delall()/add(), save()
TagSteps == {"open", "add_tags", "edit", "save"}
TagThrew(p) == \E step \in TagSteps : DidThrow(p, step)
TagUsed(p) == \E step \in TagSteps : DidRun(p, step) \/ DidThrow(p, step)

\* the original source audio of p's call, and the file p's call returned
Source(p) == fs[call[p].audio_path]
ReturnedPath(p) == call[p].result.kind = "path"
ReturnedFile(p) == fs[call[p].result.path]

\* the working copy the preparation made: converted, or a verbatim copy
PreparedCopy(p) ==
    IF DidRun(p, "convert")
    THEN ConvertedContent(Source(p), call[p].output_path)
    ELSE Source(p)

CountFrames(c, id) == Len(GetAll(c.tags.frames, id))

\* a word with some character that is not white space
NonBlank(word) == \E i \in DOMAIN word : ~IsSpace(word[i])
NonBlankCount(word_timestamps) ==
    Cardinality({i \in DOMAIN word_timestamps : NonBlank(word_timestamps[i].word)})
AllBlank(word_timestamps) == NonBlankCount(word_timestamps) = 0

\* the verify / extract that read the file p's call returned, after it returned
Verified(p) == Done(p) /\ ReturnedPath(p) /\ report.called /\ report.path = call[p].result.path
Extracted(p) == Done(p) /\ ReturnedPath(p) /\ lyrics.called /\ lyrics.path = call[p].result.path

(***************************************************************************)
(* C1                                                                      *)
(***************************************************************************)
\* C1, as stated: whenever the tag-set operations raise (the first of them,
\* MP3(), threw), embed returns a path and the file there is identical to the
\* source.
FallbackAsClaimed ==
    \A p \in Procs :
        (Done(p) /\ DidThrow(p, "open")) =>
            (ReturnedPath(p) /\ ReturnedFile(p) = Source(p))

\* C1, amended: when a tag-set operation raises, embed returns a path to a
\* file identical to the source, unless the backup copy and the last-resort
\* copy both throw as well, and then it raises.
FallbackGuarantee ==
    \A p \in Procs :
        (Done(p) /\ TagThrew(p)) =>
            IF DidThrow(p, "backup") /\ DidThrow(p, "last_resort")
            THEN call[p].result.kind = "raise"
            ELSE ReturnedPath(p) /\ ReturnedFile(p) = Source(p)

\* C1 witness: MP3() threw on a converted working copy and the backup rung
\* returned a copy of the source
FallbackWitness ==
    \E p \in Procs :
        /\ Done(p) /\ DidRun(p, "convert") /\ DidThrow(p, "open")
        /\ call[p].result.rung = "backup"
        /\ ReturnedFile(p) = Source(p)

(***************************************************************************)
(* C2                                                                      *)
(***************************************************************************)
\* C2, as stated: a call with non-empty entries, the first or a repeated one,
\* yields a container with exactly one SYLT and exactly one USLT block (here
\* only for the calls in which no file copy threw).
IdempotentAsClaimed ==
    \A p \in Procs :
        (/\ Done(p) /\ ~AllBlank(call[p].word_timestamps)
         /\ ~DidThrow(p, "prepare") /\ ~DidThrow(p, "backup")) =>
            /\ ReturnedPath(p)
            /\ CountFrames(ReturnedFile(p), "SYLT") = 1
            /\ CountFrames(ReturnedFile(p), "USLT") = 1

\* C2, amended: every call that returns on the tagging path, the first or a
\* repeated one with the same arguments, leaves exactly one SYLT block (the
\* new entries) and exactly one USLT block (the new text) in the container,
\* whatever blocks the source carried.
IdempotentEmbed ==
    \A p \in Procs :
        (Done(p) /\ call[p].result.rung = "tagged") =>
            /\ GetAll(ReturnedFile(p).tags.frames, "SYLT") = <<SyltFrame(call[p].sylt_data)>>
            /\ GetAll(ReturnedFile(p).tags.frames, "USLT") = <<UsltFrame(call[p].text)>>

\* C2 witness: the second of two tagging calls on the source that carried two
\* SYLT and two USLT blocks
IdempotentWitness ==
    \E p \in Procs :
        /\ Done(p) /\ call[p].result.rung = "tagged" /\ call[p].prev.rung = "tagged"
        /\ CountFrames(Source(p), "SYLT") = 2
        /\ CountFrames(ReturnedFile(p), "SYLT") = 1

(***************************************************************************)
(* C3                                                                      *)
(***************************************************************************)
\* The items the round trip is claimed to return: per word that is not blank,
\* its trimmed text and its start rounded to the millisecond
RECURSIVE RoundedLyrics(_)
RoundedLyrics(word_timestamps) ==
    IF word_timestamps = <<>> THEN <<>>
    ELSE LET w == Head(word_timestamps)
         IN (IF NonBlank(w.word)
             THEN << [text |-> Strip(w.word),
                      timestamp |-> RoundDiv(w.start, UsPerMs) * UsPerMs] >>
             ELSE <<>>) \o RoundedLyrics(Tail(word_timestamps))

\* C3: after embed returned on the tagging path, extract on the returned path
\* gives, in order, each entry's trimmed word and its start rounded to the
\* millisecond.
RoundTripAsClaimed ==
    \A p \in Procs :
        (Extracted(p) /\ call[p].result.rung = "tagged") =>
            lyrics.result = RoundedLyrics(call[p].word_timestamps)

(***************************************************************************)
(* C4                                                                      *)
(***************************************************************************)
\* C4: after embed returned on the tagging path, verify on the returned path
\* reports has_sylt and as many entries as there are words that are not empty
\* after trimming.
VerifyCountsEntries ==
    \A p \in Procs :
        (Verified(p) /\ call[p].result.rung = "tagged") =>
            /\ report.result.has_sylt
            /\ report.result.sylt_entries = NonBlankCount(call[p].word_timestamps)

\* C4 witness: two words, verify reports two entries
VerifyCountsWitness ==
    \E p \in Procs :
        /\ Verified(p) /\ call[p].result.rung = "tagged"
        /\ NonBlankCount(call[p].word_timestamps) = 2
        /\ report.result.has_sylt /\ report.result.sylt_entries = 2

(***************************************************************************)
(* C5                                                                      *)
(***************************************************************************)
\* C5, as stated: with no entries, the returned file has no SYLT block and
\* verify on it reports has_sylt = false, whatever the source.
NoEntriesAsClaimed ==
    \A p \in Procs :
        (Done(p) /\ ReturnedPath(p) /\ AllBlank(call[p].word_timestamps)) =>
            /\ CountFrames(ReturnedFile(p), "SYLT") = 0
            /\ Verified(p) => ~report.result.has_sylt

\* C5, amended: with no entries, the returned file carries exactly the SYLT
\* blocks of the prepared copy (those of the source, or none after a
\* conversion), and verify on it reports has_sylt = false exactly when there
\* are none: always so for a source without a SYLT block.
NoEntriesKeepsSource ==
    \A p \in Procs :
        (Done(p) /\ ReturnedPath(p) /\ AllBlank(call[p].word_timestamps)) =>
            /\ GetAll(ReturnedFile(p).tags.frames, "SYLT")
                   = GetAll(PreparedCopy(p).tags.frames, "SYLT")
            /\ Verified(p) =>
                   (report.result.has_sylt <=> CountFrames(PreparedCopy(p), "SYLT") > 0)
            /\ CountFrames(Source(p), "SYLT") = 0 =>
                   /\ CountFrames(ReturnedFile(p), "SYLT") = 0
                   /\ Verified(p) => ~report.result.has_sylt

\* C5 witness: only blank words, a source without SYLT, verify says has_sylt
\* = false
NoEntriesWitness ==
    \E p \in Procs :
        /\ Verified(p) /\ AllBlank(call[p].word_timestamps)
        /\ call[p].word_timestamps # <<>>
        /\ CountFrames(Source(p), "SYLT") = 0
        /\ ~report.result.has_sylt

(***************************************************************************)
(* C6                                                                      *)
(***************************************************************************)
\* C6: when entry construction returned the empty sequence, the call ran no
\* tag-set operation, did not raise, and returned the primary output path,
\* which holds exactly the prepared copy.
EmptyEntriesSkipTagging ==
    \A p \in Procs :
        (Done(p) /\ DidRun(p, "build") /\ call[p].sylt_data = <<>>) =>
            /\ ~TagUsed(p)
            /\ ReturnedPath(p)
            /\ call[p].result.path = OutputPath(call[p].output_filename)
            /\ ReturnedFile(p) = PreparedCopy(p)

\* C6 witness: a list of blank words on a converted copy, returned as prepared
EmptyEntriesWitness ==
    \E p \in Procs :
        /\ Done(p) /\ DidRun(p, "build") /\ call[p].sylt_data = <<>>
        /\ call[p].word_timestamps # <<>>
        /\ DidRun(p, "convert")
        /\ call[p].result.rung = "prepared"

(***************************************************************************)
(* C7                                                                      *)
(***************************************************************************)
\* C7: whenever a tagging step throws (and the backup copy is made), embed
\* returns the backup path, a path other than the primary output path, and
\* the file there is the source.
BackupNameDistinctAsClaimed ==
    \A p \in Procs :
        (Done(p) /\ TagThrew(p) /\ DidRun(p, "backup")) =>
            /\ ReturnedPath(p)
            /\ call[p].result.path # OutputPath(call[p].output_filename)
            /\ ReturnedFile(p) = Source(p)

(***************************************************************************)
(* C8                                                                      *)
(***************************************************************************)
\* C8: embed raises only when the last-resort copy threw, which it attempts
\* only after the preparation or the backup copy threw; in every other case
\* it returns a path; and copy_<name> differs from the primary and the backup
\* path.
RaisesOnlyAfterLastResort ==
    /\ \A p \in Procs :
          Done(p) =>
            /\ call[p].result.kind = "raise" <=> DidThrow(p, "last_resort")
            /\ call[p].result.kind # "raise" => ReturnedPath(p)
            /\ DidThrow(p, "last_resort") =>
                   DidThrow(p, "prepare") \/ DidThrow(p, "backup")
    /\ \A n \in OutputNames :
          FallbackPath(n) \notin {OutputPath(n), BackupPath(OutputPath(n))}

\* C8 witness: tagging, the backup copy and the last-resort copy all threw,
\* and the call raised
RaisesWitness ==
    \E p \in Procs :
        /\ Done(p) /\ TagThrew(p) /\ DidThrow(p, "backup") /\ DidThrow(p, "last_resort")
        /\ call[p].result.kind = "raise"

(***************************************************************************)
(* C9                                                                      *)
(***************************************************************************)
\* what each rung returns: the tagged working copy, the prepared copy, or a
\* verbatim copy of the source
WholeOutputs(p) ==
    { Source(p), PreparedCopy(p) } \cup
    { [PreparedCopy(p) EXCEPT !.tags = Tags(EditTags(@.frames, call[p].sylt_data, call[p].text))] }

\* C9: a call that returns, returns the path of a file that exists and is
\* whole: the tagged output, the prepared copy or a copy of the source, never
\* a half-written file.
ReturnsWholeFile ==
    \A p \in Procs :
        (Done(p) /\ ReturnedPath(p)) =>
            /\ IsFile(ReturnedFile(p))
            /\ ReturnedFile(p) \in WholeOutputs(p)

\* C9 witness: save() threw and left the primary path half-written, and the
\* call returned another, whole file
WholeFileWitness ==
    \E p \in Procs :
        /\ Done(p) /\ ReturnedPath(p) /\ DidThrow(p, "save")
        /\ fs[call[p].output_path] = Garbage
        /\ IsFile(ReturnedFile(p))

(***************************************************************************)
(* C10                                                                     *)
(***************************************************************************)
AtMostOneEach(c) == CountFrames(c, "SYLT") <= 1 /\ CountFrames(c, "USLT") <= 1

\* C10, as stated: every returned file, on every rung and for every source,
\* has at most one SYLT and at most one USLT block.
AtMostOneBlockAsClaimed ==
    \A p \in Procs : (Done(p) /\ ReturnedPath(p)) => AtMostOneEach(ReturnedFile(p))

\* C10, amended: a file returned on the tagging rung has at most one SYLT and
\* at most one USLT block; a file returned on another rung has at most one of
\* each whenever the source has.
AtMostOneBlock ==
    \A p \in Procs :
        (/\ Done(p) /\ ReturnedPath(p)
         /\ call[p].result.rung = "tagged" \/ AtMostOneEach(Source(p)))
            => AtMostOneEach(ReturnedFile(p))

\* C10 witness: the tagging rung on the source that carried two blocks of
\* each kind
AtMostOneBlockWitness ==
    \E p \in Procs :
        /\ Done(p) /\ call[p].result.rung = "tagged"
        /\ ~AtMostOneEach(Source(p))
        /\ AtMostOneEach(ReturnedFile(p))

(***************************************************************************)
(* The life of the instance: construction, the calls, and __del__          *)
(***************************************************************************)
\* a path inside self.temp_dir
UnderTempDir(path) ==
    Len(path) > Len(temp_dir) /\ SubSeq(path, 1, Len(temp_dir)) = temp_dir

\* shutil.rmtree(self.temp_dir): every file under the directory is gone
Rmtree(files) ==
    [path \in DOMAIN files |-> IF UnderTempDir(path) THEN Absent ELSE files[path]]

\* The caller lets go of its last reference to the instance, between calls
Drop ==
    /\ Quiet
    /\ embedder.life = "live"
    /\ embedder' = [embedder EXCEPT !.life = "dropped"]
    /\ UNCHANGED <<fs, call, ncalls, report, lyrics, job>>

\* Lines 314-319: __del__ runs on the dropped instance, temp_dir exists and
\* rmtree removes it
FinalizeOk ==
    /\ embedder.life = "dropped"
    /\ embedder.temp_dir = "exists"
    /\ fs' = Rmtree(fs)
    /\ embedder' = [embedder EXCEPT !.life = "finalized", !.temp_dir = "removed"]
    /\ UNCHANGED <<call, ncalls, report, lyrics, job>>

\* Lines 318-321: rmtree throws, having removed nothing or every file but
\* not the directory; `except: pass` swallows it
FinalizeRmtreeThrows ==
    /\ embedder.life = "dropped"
    /\ embedder.temp_dir = "exists"
    /\ fs' \in {fs, Rmtree(fs)}
    /\ embedder' = [embedder EXCEPT !.life = "finalized", !.rmtree_threw = TRUE]
    /\ UNCHANGED <<call, ncalls, report, lyrics, job>>

\* The interpreter ends between calls while the caller still holds the
\* instance: __del__ is the only release (lines 314-321) and Python does not
\* promise to call it for an object that still exists at exit
Exit ==
    /\ Quiet
    /\ embedder.life = "live"
    /\ embedder' = [embedder EXCEPT !.life = "exited"]
    /\ UNCHANGED <<fs, call, ncalls, report, lyrics, job>>

LifeNext ==
    \/ \E p \in SerialProcs : Step(p)
    \/ Drop
    \/ FinalizeOk
    \/ FinalizeRmtreeThrows
    \/ Exit

LifeSpec == Init /\ [][LifeNext]_vars

(***************************************************************************)
(* embed_sylt_lyrics on its own, called with any output file name          *)
(***************************************************************************)
EmbedInit ==
    /\ fs = [p \in CallerPaths |-> IF p \in Sources THEN SourceContent(p) ELSE Absent]
    /\ call = [p \in Procs |-> IdleFrame]
    /\ ncalls = 0
    /\ report = NoReport
    /\ lyrics = NoLyrics
    /\ job = NoJob
    /\ embedder = Constructed

EmbedNext ==
    \E p \in SerialProcs :
        \/ \E audio_path \in Sources, word_timestamps \in WordTimestampLists,
              text \in FullTexts, output_filename \in CallerNames :
              Call(p, audio_path, word_timestamps, text, output_filename)
        \/ Run(p)

EmbedSpec == EmbedInit /\ [][EmbedNext]_vars

(***************************************************************************)
(* Two callers in embed_sylt_lyrics of one instance at once, with the same *)
(* output file name; each step of a call is atomic                         *)
(***************************************************************************)
SharedName == <<"o", ".", "m", "p", "3">>
ConcurrentWordLists ==
    {word_timestamps \in WordTimestampLists :
        Len(word_timestamps) = 1 /\ Strip(word_timestamps[1].word) # <<>>}

ConcurrentNext ==
    \E p \in Procs :
        \/ \E audio_path \in Sources, word_timestamps \in ConcurrentWordLists,
              text \in FullTexts :
              Call(p, audio_path, word_timestamps, text, SharedName)
        \/ Run(p)

ConcurrentSpec == Init /\ [][ConcurrentNext]_vars

(***************************************************************************)
(* Vocabulary of the properties of the constructions                       *)
(***************************************************************************)
\* the word list the construction or export was given, and how it did
Words == job.word_timestamps
WellFormed == ~AnyRaises(Words)

\* the places of the words that are not blank, and the j-th of them
NonBlankPlaces == {i \in DOMAIN Words : NonBlank(Words[i].word)}
NthNonBlank(j) ==
    CHOOSE i \in NonBlankPlaces : Cardinality({h \in NonBlankPlaces : h <= i}) = j

\* ceil(n / k)
CeilDiv(n, k) == (n + k - 1) \div k

\* the places of the j-th group of k consecutive words out of n
GroupPlaces(j, k, n) == ((j - 1) * k + 1)..(IF j * k < n THEN j * k ELSE n)
FirstPlace(j, k) == (j - 1) * k + 1
LastPlace(j, k, n) == IF j * k < n THEN j * k ELSE n

(***************************************************************************)
(* C11                                                                     *)
(***************************************************************************)
\* C11, as stated: the per-word entry of a word with text w and start s is
\* (trim(w), s * 1000 rounded to the nearest integer).
PerWordRoundsAsClaimed ==
    (job.op = "per_word" /\ WellFormed /\ Len(job.entries) = Cardinality(NonBlankPlaces)) =>
        \A j \in DOMAIN job.entries :
            job.entries[j] = << Strip(Words[NthNonBlank(j)].word),
                                RoundDiv(Words[NthNonBlank(j)].start, UsPerMs) >>

(***************************************************************************)
(* C12                                                                     *)
(***************************************************************************)
\* C12: the per-word construction emits exactly one entry for each word whose
\* text is not empty after trimming and none for the others, in the order of
\* the words.
PerWordOnePerWord ==
    (job.op = "per_word" /\ WellFormed) =>
        /\ Len(job.entries) = Cardinality(NonBlankPlaces)
        /\ \A j \in DOMAIN job.entries :
              job.entries[j] = << Strip(Words[NthNonBlank(j)].word),
                                  TimestampMs(Words[NthNonBlank(j)].start) >>

\* C12 witness: a list with a blank word between two words, and one entry
\* for each of the two
PerWordWitness ==
    /\ job.op = "per_word" /\ WellFormed
    /\ \E i \in DOMAIN Words :
          /\ ~NonBlank(Words[i].word)
          /\ \E h \in 1..(i - 1) : NonBlank(Words[h].word)
          /\ \E h \in (i + 1)..Len(Words) : NonBlank(Words[h].word)
    /\ Len(job.entries) >= 2
    /\ Len(job.entries) < Len(Words)

(***************************************************************************)
(* C13                                                                     *)
(***************************************************************************)
\* C13, as stated: with group size k the per-line construction yields
\* ceil(n / k) entries for every list of n words.
PerLineCountAsClaimed ==
    (job.op = "per_line" /\ WellFormed) =>
        Len(job.entries) = CeilDiv(Len(Words), job.max_words_per_line)

\* the groups of k consecutive words that hold a word that is not blank
SpokenGroups(k) ==
    {j \in 1..CeilDiv(Len(Words), k) :
        \E i \in GroupPlaces(j, k, Len(Words)) : NonBlank(Words[i].word)}

\* C13, amended: the per-line construction yields one entry for each group of
\* k consecutive words, the trailing partial group included, that holds a
\* word that is not blank: ceil(n / k) entries when every group does.
PerLineCount ==
    (job.op = "per_line" /\ WellFormed) =>
        /\ Len(job.entries) = Cardinality(SpokenGroups(job.max_words_per_line))
        /\ (\A i \in DOMAIN Words : NonBlank(Words[i].word)) =>
              Len(job.entries) = CeilDiv(Len(Words), job.max_words_per_line)

\* C13 witness: a list whose length is not a multiple of k, the trailing
\* partial group emitted and an all-blank group skipped
PerLineCountWitness ==
    /\ job.op = "per_line" /\ WellFormed
    /\ Len(Words) > job.max_words_per_line
    /\ Len(Words) % job.max_words_per_line # 0
    /\ CeilDiv(Len(Words), job.max_words_per_line) \in SpokenGroups(job.max_words_per_line)
    /\ 0 < Len(job.entries)
    /\ Len(job.entries) < CeilDiv(Len(Words), job.max_words_per_line)

(***************************************************************************)
(* C14                                                                     *)
(***************************************************************************)
\* the trimmed words at places from..to, joined by single spaces
RECURSIVE JoinTrimmed(_, _)
JoinTrimmed(from, to) ==
    IF from > to THEN <<>>
    ELSE IF from = to THEN Strip(Words[from].word)
    ELSE Strip(Words[from].word) \o <<" ">> \o JoinTrimmed(from + 1, to)

\* C14, as stated (for lists without a blank word, where every group makes
\* an entry): each per-line entry has the start, in milliseconds, of the
\* first word of its group and the space-joined trimmed words of the group.
PerLineTextAsClaimed ==
    (/\ job.op = "per_line" /\ WellFormed
     /\ \A i \in DOMAIN Words : NonBlank(Words[i].word)) =>
        \A j \in DOMAIN job.entries :
            LET k == job.max_words_per_line
            IN job.entries[j] =
                  << JoinTrimmed(FirstPlace(j, k), LastPlace(j, k, Len(Words))),
                     TimestampMs(Words[FirstPlace(j, k)].start) >>

(***************************************************************************)
(* C15                                                                     *)
(***************************************************************************)
\* C15: the per-word and the per-line construction never raise; when an
\* element of the input makes the loop throw they return the empty sequence,
\* not the entries built so far, and log a diagnostic.
ConstructionNeverRaises ==
    job.op \in {"per_word", "per_line"} =>
        /\ job.result = "returned"
        /\ AnyRaises(Words) => (job.entries = <<>> /\ job.logged)
        /\ WellFormed => ~job.logged

\* C15 witness: the per-word construction on a list whose malformed word
\* comes after a word that had made an entry
ConstructionWitness ==
    /\ job.op = "per_word"
    /\ \E i \in DOMAIN Words :
          /\ IsNone(Words[i])
          /\ \E h \in 1..(i - 1) : NonBlank(Words[h].word)
    /\ job.entries = <<>>
    /\ job.logged

(***************************************************************************)
(* C16                                                                     *)
(***************************************************************************)
\* C16: verify never raises. On a readable file without a tag-set it reports
\* has_sylt = false, has_uslt = false, sylt_entries = 0 and no error detail;
\* when the file cannot be read it reports the same three fields and an error
\* string that is not null.
VerifyNeverRaises ==
    report.called =>
        /\ report.result.error \in {"None", "error"}
        /\ (Readable(fs, report.path) /\ ~fs[report.path].tags.present) =>
              report.result =
                 [has_sylt |-> FALSE, has_uslt |-> FALSE, sylt_entries |-> 0, error |-> "None"]
        /\ ~Readable(fs, report.path) =>
              report.result =
                 [has_sylt |-> FALSE, has_uslt |-> FALSE, sylt_entries |-> 0, error |-> "error"]

\* C16 witness: verify has read a path where the raising embed call left no
\* whole file, and reported the error
VerifyFailureWitness ==
    /\ report.called
    /\ ~Readable(fs, report.path)
    /\ report.result.error = "error"
    /\ ~report.result.has_sylt /\ ~report.result.has_uslt

(***************************************************************************)
(* C17                                                                     *)
(***************************************************************************)
\* the entries of every SYLT frame of a file, in frame order
RECURSIVE EntriesOf(_)
EntriesOf(frames) ==
    IF frames = <<>> THEN <<>>
    ELSE (IF Head(frames).id = "SYLT" THEN Head(frames).entries ELSE <<>>)
         \o EntriesOf(Tail(frames))
StoredEntries(path) == EntriesOf(fs[path].tags.frames)

\* C17: extract never raises. When the file cannot be read it returns the
\* empty sequence and logs the cause; otherwise it returns one item per stored
\* entry, with the stored text and the stored milliseconds divided by 1000
\* (as seconds; here in microseconds).
ExtractNeverRaises ==
    lyrics.called =>
        IF ~Readable(fs, lyrics.path)
        THEN lyrics.result = <<>> /\ lyrics.logged
        ELSE /\ ~lyrics.logged
             /\ Len(lyrics.result) = Len(StoredEntries(lyrics.path))
             /\ \A i \in DOMAIN lyrics.result :
                   /\ lyrics.result[i].text = StoredEntries(lyrics.path)[i][1]
                   /\ lyrics.result[i].timestamp * 1000 =
                         StoredEntries(lyrics.path)[i][2] * 1000000

\* C17 witness: extract has read a file holding an entry stored at 1 ms or
\* later, and returned it at that many thousandths of a second
ExtractWitness ==
    /\ lyrics.called
    /\ Readable(fs, lyrics.path)
    /\ \E i \in DOMAIN lyrics.result :
          /\ StoredEntries(lyrics.path)[i][2] >= 1
          /\ lyrics.result[i].timestamp = StoredEntries(lyrics.path)[i][2] * UsPerMs

(***************************************************************************)
(* C18                                                                     *)
(***************************************************************************)
\* C18: the LRC export of n words writes ceil(n / 8) lines; line j holds the
\* words 8(j-1)+1 .. min(8j, n), space-joined, after the timestamp of the
\* first of them.
LrcLineCount ==
    (job.op = "lrc" /\ job.result = "returned") =>
        /\ job.file.state = "written"
        /\ Len(job.file.lines) = CeilDiv(Len(Words), LrcWordsPerLine)
        /\ \A j \in DOMAIN job.file.lines :
              LET from == FirstPlace(j, LrcWordsPerLine)
                  to == LastPlace(j, LrcWordsPerLine, Len(Words))
              IN /\ to - from + 1 <= LrcWordsPerLine
                 /\ job.file.lines[j].line_text = JoinWords(SubSeq(Words, from, to))
                 /\ job.file.lines[j].timestamp = LrcTimestamp(Words[from].start)

\* C18 witness: 9 words make 2 lines, the second holding the ninth word
\* alone, stamped with its own start (01:03.01)
LrcWitness ==
    /\ job.op = "lrc" /\ job.result = "returned"
    /\ Len(Words) = 9
    /\ Len(job.file.lines) = 2
    /\ job.file.lines[2].line_text = Words[9].word
    /\ job.file.lines[2].timestamp = LrcTimestamp(Words[9].start)
    /\ job.file.lines[2].timestamp # job.file.lines[1].timestamp
    /\ job.file.lines[2].timestamp.minutes = 1

(***************************************************************************)
(* C19                                                                     *)
(***************************************************************************)
\* C19: whenever the LRC export could not write the caption file it raises
\* to the caller: it returns a path only when the file is written.
LrcRaises ==
    job.op \in {"lrc", "lrc_write_threw"} =>
        /\ job.result \in {"returned", "raised"}
        /\ job.result = "returned" <=> job.file.state = "written"

\* C19 witness: the write threw half way, and the export raised
LrcRaisesWitness ==
    /\ job.op = "lrc_write_threw"
    /\ job.file.state = "partial"
    /\ job.result = "raised"

(***************************************************************************)
(* C20                                                                     *)
(***************************************************************************)
\* C20, as stated, for the error path: once an embed call has raised and the
\* instance is no longer there (finalized, or gone with the interpreter), its
\* scratch directory has been released, or the deletion was tried, failed
\* and was swallowed.
ScratchReleasedAsClaimed ==
    (/\ embedder.life \in {"finalized", "exited"}
     /\ \E p \in Procs : Done(p) /\ ~ReturnedPath(p)) =>
        (embedder.temp_dir = "removed" \/ embedder.rmtree_threw)

(***************************************************************************)
(* C21                                                                     *)
(***************************************************************************)
\* C21, as stated: whatever output file name the caller passes, every file
\* embed has written (every path but the sources that holds something) lies
\* under the instance's scratch directory.
WritesUnderScratchAsClaimed ==
    \A path \in DOMAIN fs \ Sources : fs[path] # Absent => UnderTempDir(path)

(***************************************************************************)
(* C22                                                                     *)
(***************************************************************************)
\* the file p's call leaves at its output path when it runs alone and
\* returns after save(): its prepared copy (converted, or verbatim) carrying
\* its own SYLT and USLT blocks
TaggedWith(c, p) ==
    File(c.audio,
         Tags(EditTags(c.tags.frames, CreateSyltData(call[p].word_timestamps),
                       call[p].text)))
AloneOutputs(p) ==
    { TaggedWith(c, p) :
        c \in IF IsMp3Path(call[p].audio_path)
              THEN {Source(p)}
              ELSE {Source(p), ConvertedContent(Source(p), call[p].output_path)} }

\* C22, as stated (for two calls that both return after save()): after both
\* calls on the same output path have completed, the file at that path is
\* the output one of the two would have produced alone, never a mixture.
LastWriteWinsAsClaimed ==
    (/\ \A p \in Procs : Done(p) /\ call[p].result.rung = "tagged"
     /\ call[1].output_path = call[2].output_path) =>
        fs[call[1].output_path] \in AloneOutputs(1) \cup AloneOutputs(2)

(***************************************************************************)
(* C23                                                                     *)
(***************************************************************************)
\* the steps p's call has come to, in order: those it has run, and the one
\* it is at
Reached(p) ==
    [i \in DOMAIN call[p].trace |-> call[p].trace[i].step]
    \o (IF call[p].pc \in {"backup", "last_resort"} THEN << call[p].pc >> ELSE <<>>)

\* the step before the i-th step p's call came to threw, and was one of
\* `steps`
CameFromThrow(p, i, steps) ==
    /\ i > 1
    /\ ~call[p].trace[i - 1].ok
    /\ call[p].trace[i - 1].step \in steps

\* C23, as stated: the backup-copy rung is entered only after a tagging step
\* threw, and the last-resort rung only after the backup copy was attempted
\* and threw.
StrictLadderAsClaimed ==
    \A p \in Procs : \A i \in DOMAIN Reached(p) :
        /\ Reached(p)[i] = "backup" => CameFromThrow(p, i, TagSteps)
        /\ Reached(p)[i] = "last_resort" => CameFromThrow(p, i, {"backup"})

\* C23, amended: the backup-copy rung is entered only straight after a
\* tagging step threw, and the last-resort rung only straight after the
\* backup copy threw or the preparing copy threw.
StrictLadder ==
    \A p \in Procs : \A i \in DOMAIN Reached(p) :
        /\ Reached(p)[i] = "backup" => CameFromThrow(p, i, TagSteps)
        /\ Reached(p)[i] = "last_resort" => CameFromThrow(p, i, {"backup", "prepare"})

\* C23 witness: a call that went down the whole ladder: save threw, the
\* backup copy threw, the last-resort copy was made
StrictLadderWitness ==
    \E p \in Procs :
        /\ Done(p)
        /\ DidThrow(p, "save") /\ DidThrow(p, "backup") /\ DidRun(p, "last_resort")

(***************************************************************************)
(* C24                                                                     *)
(***************************************************************************)
\* C24, as stated: when save() threw and embed has returned the backup path,
\* the primary output path does not hold the half-written file.
PartialDiscardedAsClaimed ==
    \A p \in Procs :
        (/\ Done(p) /\ call[p].result.rung = "backup"
         /\ DidThrow(p, "save")
         /\ call[p].result.path # call[p].output_path) =>
            fs[call[p].output_path].state # "half-written"

(***************************************************************************)
(* C25                                                                     *)
(***************************************************************************)
\* C25, as stated (its part on the diagnostic): when the conversion of a
\* source that is not an MP3 threw and the verbatim copy was made in its
\* place, the call has logged the degrade.
DegradeLoggedAsClaimed ==
    \A p \in Procs :
        (/\ Done(p)
         /\ ~IsMp3Path(call[p].audio_path)
         /\ DidThrow(p, "convert") /\ DidRun(p, "prepare")) =>
            call[p].log # <<>>

(***************************************************************************)
(* C26                                                                     *)
(***************************************************************************)
\* C26, as stated: the lines create_lrc_file writes match, one to one and in
\* order, the entries of _create_line_based_sylt_data(words, 8): as many
\* lines as entries, each with the entry's text and the start of the same
\* first word.
LrcMatchesPerLineAsClaimed ==
    (job.op = "lrc" /\ job.result = "returned") =>
        LET entries == CreateLineBasedSyltData(Words, LrcWordsPerLine)
        IN /\ Len(job.file.lines) = Len(entries)
           /\ \A j \in DOMAIN job.file.lines :
                 /\ job.file.lines[j].line_text = entries[j][1]
                 /\ \E i \in DOMAIN Words :
                       /\ job.file.lines[j].timestamp = LrcTimestamp(Words[i].start)
                       /\ entries[j][2] = TimestampMs(Words[i].start)

(***************************************************************************)
(* C27                                                                     *)
(***************************************************************************)
\* C27: verify_sylt_embedding and extract_sylt_lyrics are read-only and read
\* the disk: a step in which either of them runs leaves every file as it
\* was, bytes and tag-set, and what it reports is computed from the file on
\* disk at that moment, whether the file could be read or not.
ReadBackIsReadOnly ==
    [][ /\ (report'.called /\ ~report.called) =>
              /\ fs' = fs
              /\ report'.result = VerifySyltEmbedding(fs, report'.path)
        /\ (lyrics'.called /\ ~lyrics.called) =>
              /\ fs' = fs
              /\ lyrics'.result = ExtractSyltLyrics(fs, lyrics'.path) ]_vars

\* Both have run on the file a call returned, have found its frame and
\* entries, and the file is still the one the call saved
ReadBackIsReadOnlyWitness ==
    /\ report.called /\ report.result.has_sylt
    /\ lyrics.called /\ lyrics.result # <<>>
    /\ \E p \in Procs : Done(p) /\ call[p].result.rung = "tagged"

(***************************************************************************)
(* C28                                                                     *)
(***************************************************************************)
\* C28: embed never modifies its source: at every step of a call and after
\* it, on whichever rung it ends, the file at the call's audio_path is the
\* file that was there before the call, even when the output name the
\* caller passes is the source path itself.
SourceUntouched ==
    \A p \in Procs :
        call[p].audio_path # <<>> =>
            fs[call[p].audio_path] = SourceContent(call[p].audio_path)

\* A call has saved its tag-set: the file it returns differs from the source
SourceUntouchedWitness ==
    \E p \in Procs :
        /\ Done(p) /\ call[p].result.rung = "tagged"
        /\ fs[call[p].result.path] # fs[call[p].audio_path]

(***************************************************************************)
(* C29                                                                     *)
(***************************************************************************)
Attempts(p, steps) ==
    Cardinality({ i \in DOMAIN call[p].trace : call[p].trace[i].step \in steps })

CopySteps == {"prepare", "backup", "last_resort"}
LadderSteps == {"convert", "build"} \cup TagSteps \cup CopySteps

\* C29: every embed call terminates, each external call returning or
\* throwing: the call runs steps of the ladder only, none of them twice (so
\* at most one conversion, one attempt of each tag-set operation and three
\* copies of the source: prepare, backup, last resort), a call under way can
\* always take its next step, and a call that has stopped has returned a path
\* or raised.
EmbedTerminates ==
    \A p \in Procs :
        /\ \A i \in DOMAIN call[p].trace : call[p].trace[i].step \in LadderSteps
        /\ \A step \in LadderSteps : Attempts(p, {step}) <= 1
        /\ Attempts(p, {"convert"}) <= 1
        /\ Attempts(p, CopySteps) <= 3
        /\ call[p].pc # "idle" => ENABLED Run(p)
        /\ (call[p].pc = "idle" /\ call[p].trace # <<>>) =>
              call[p].result.kind \in {"path", "raise"}

\* A call has ended after the conversion failed and all three copies were
\* attempted
EmbedTerminatesWitness ==
    \E p \in Procs :
        /\ Done(p)
        /\ DidThrow(p, "convert") /\ DidRun(p, "prepare")
        /\ DidThrow(p, "backup")
        /\ DidRun(p, "last_resort") \/ DidThrow(p, "last_resort")

====
